---- MODULE Spec2Model ----
(***************************************************************************)
(* sirbot-slack: the message dispatcher (sirbot/slack/dispatcher/message.py) *)
(* as a state machine.  The state is the dispatcher's continuation map     *)
(* (_callbacks), its pattern index (_endpoints), the handler tasks it has   *)
(* scheduled on the event loop and not yet seen complete, the saved         *)
(* messages of the database, and the clock.  `frame` holds the callback the   *)
(* event loop is running: its message, its log lines, the patterns it       *)
(* searched, the handlers it located, and the state it started from.  The   *)
(* loop runs one callback at a time; the next starts when it has returned.  *)
(*                                                                         *)
(* incoming() awaits before it routes (normalisation, the database), but    *)
(* _dispatch has no suspension point: lookup, delete and the scheduling of  *)
(* the handlers are one step of the event loop.  Incoming is one action.    *)
(***************************************************************************)
EXTENDS Integers, Sequences, FiniteSets, Bags, TLC

VARIABLES
    callbacks,   \* self._callbacks: frm id -> (to id -> continuation entry)
    endpoints,   \* self._endpoints: compiled pattern -> descriptors, in order
    plugins,     \* what the plugins' register_slack_messages hooks return
    built,       \* whether __init__ returned, its call of _register included
    threads,     \* the thread continuations the specification describes
    tasks,       \* handler tasks scheduled on the loop and not yet done (a bag)
    nTasks,      \* number of handler tasks scheduled so far
    db,          \* timestamps of the messages saved in the database
    save,        \* self._save: the configured save policy
    now,         \* time.time()
    spent,       \* pairs whose continuation was consumed and not registered again
    promise,     \* continuations requested for a pair since its last routed message
    failed,      \* messages one of whose handler tasks ended with an exception
    users,       \* the user table of the database: id -> row
    got,         \* the last call of UserStore.get: its arguments and what it left
    rtm,         \* the plugin's side of the real-time connection
    frame        \* the callback the event loop is running, with what it did

vars ==
    <<callbacks, endpoints, plugins, built, threads, tasks, nTasks, db, save, now,
      spent, promise, failed, users, got, rtm, frame>>

\* the state of the plugin around the message dispatcher
pluginVars == <<users, got, rtm>>

\* the state of the message dispatcher, the clock apart
dispatcherVars ==
    <<callbacks, endpoints, plugins, built, threads, tasks, nTasks, db, save, spent,
      promise, failed, frame>>

-----------------------------------------------------------------------------
(* Bounds of the model *)

MaxTime == 2

\* attempts of one reconnect that are told apart
MaxAttempts == 3
MaxTasks == 2
MaxTs == 2

-----------------------------------------------------------------------------
(* Identities *)

BotId == "UBOT"
BotBotId == "BBOT"
SlackbotId == "B00000000"
BotMention == "<@UBOT>"

\* self.bot: the User built from info_self; bot_id is its bot-surrogate id
Bot == [id |-> BotId, bot_id |-> BotBotId]

\* message.frm of a message without sender (None)
NoFrm == [id |-> "None", raw |-> {}]

U1 == [id |-> "U1", raw |-> {<<"is_admin", TRUE>>}]
U1plain == [id |-> "U1", raw |-> {}]
BotUser == [id |-> BotId, raw |-> {<<"is_bot", TRUE>>}]
BotSurrogate == [id |-> BotBotId, raw |-> {}]
Slackbot == [id |-> SlackbotId, raw |-> {}]

Users == {U1, U1plain}
Senders == {NoFrm, U1, U1plain, BotUser, BotSurrogate, Slackbot}

C1 == [id |-> "C1"]
C2 == [id |-> "C2"]
Dests == {C1, C2}

\* User.admin: self._raw.get('is_admin', False)
UserAdmin(user) ==
    IF \E p \in user.raw : p[1] = "is_admin"
    THEN (CHOOSE p \in user.raw : p[1] = "is_admin")[2]
    ELSE FALSE

-----------------------------------------------------------------------------
(* Messages *)

NoSubtype == "None"
Ignoring == <<"message_changed", "message_deleted", "channel_join",
              "channel_leave", "message_replied">>
Subtypes == {NoSubtype, "bot_message"} \cup {Ignoring[i] : i \in 1..Len(Ignoring)}

Texts == {<<"c">>, <<"a">>, <<BotMention, "a">>}

Timestamps == 1..MaxTs
NoConv == 0
NoThread == "None"

\* messages of users, with every text and mention flag
RouteMessages ==
    [frm : Users, to : Dests, text : Texts, subtype : {NoSubtype},
     mention : BOOLEAN, timestamp : Timestamps, thread : {NoThread}]

\* messages of every sender and subtype
IngestMessages ==
    [frm : Senders, to : Dests, text : {<<"a">>}, subtype : Subtypes,
     mention : {FALSE}, timestamp : Timestamps, thread : {NoThread}]

\* messages of one user, in a thread or in none
ThreadMessages ==
    [frm : {U1plain}, to : Dests, text : {<<"a">>}, subtype : {NoSubtype},
     mention : {FALSE}, timestamp : Timestamps, thread : {NoThread, "T1"}]

\* SlackMessage.from_raw: the normalised message; no conversation id yet
FromRaw(raw) ==
    [frm |-> raw.frm, to |-> raw.to, text |-> raw.text, subtype |-> raw.subtype,
     mention |-> raw.mention, timestamp |-> raw.timestamp,
     thread |-> raw.thread, conversation_id |-> NoConv]

NoMsg ==
    [frm |-> NoFrm, to |-> C1, text |-> <<>>, subtype |-> NoSubtype,
     mention |-> FALSE, timestamp |-> 1, thread |-> NoThread,
     conversation_id |-> NoConv]

-----------------------------------------------------------------------------
(* Save policy and database *)

SaveTrue == [isList |-> FALSE, value |-> TRUE, list |-> <<>>]
SaveFalse == [isList |-> FALSE, value |-> FALSE, list |-> <<>>]
SaveList == [isList |-> TRUE, value |-> FALSE, list |-> <<"bot_message", "message_changed">>]

InList(x, list) == \E i \in 1..Len(list) : list[i] = x

\* isinstance(self._save, list) and message.subtype in self._save or self._save is True
SaveCovers(policy, message) ==
    (policy.isList /\ InList(message.subtype, policy.list))
    \/ (~policy.isList /\ policy.value)

\* save_incoming_message + commit: the insert fails with IntegrityError when the
\* message's timestamp key is already stored
SaveIncoming(store, message) ==
    IF message.timestamp \in store
    THEN [integrityError |-> TRUE, db |-> store]
    ELSE [integrityError |-> FALSE, db |-> store \cup {message.timestamp}]

-----------------------------------------------------------------------------
(* The registry: _register *)

\* msg['match'].format(bot_name='<@{}>'.format(self.bot.id))
Format(match) ==
    [i \in 1..Len(match) |-> IF match[i] = "{bot_name}" THEN BotMention ELSE match[i]]

\* re.compile raises re.error on a malformed pattern (an unbalanced parenthesis)
Compiles(match) == ~InList("(", match)

\* pattern.search(text): the position of the first occurrence, 0 for None
Search(match, text) ==
    LET hits == {i \in 1..(Len(text) - Len(match) + 1) :
                    SubSeq(text, i, i + Len(match) - 1) = match}
    IN IF hits = {} THEN 0 ELSE CHOOSE i \in hits : \A j \in hits : i <= j

Dh1 == [match |-> <<"a">>, func |-> "h1", mention |-> FALSE, admin |-> FALSE]
Dh2 == [match |-> <<"a">>, func |-> "h2", mention |-> TRUE, admin |-> FALSE]
Dh3 == [match |-> <<"{bot_name}">>, func |-> "h3", mention |-> FALSE, admin |-> TRUE]

\* what register_slack_messages returns: one list of descriptors per plugin
Plugins1 == << <<Dh1, Dh3>>, <<Dh2>> >>

\* a descriptor that carries a channel scope, a key _register and _dispatch never read
Dh4 ==
    [match |-> <<"a">>, func |-> "h4", mention |-> FALSE, admin |-> FALSE,
     scope |-> {"C1"}]

\* a descriptor whose pattern does not compile
Dbad == [match |-> <<"(">>, func |-> "hbad", mention |-> FALSE, admin |-> FALSE]

Plugins2 == << <<Dh1, Dh4>> >>
Plugins3 == << <<Dh1, Dbad>>, <<Dh2>> >>

RECURSIVE Flatten(_)
Flatten(all_messages) ==
    IF all_messages = <<>> THEN <<>>
    ELSE Head(all_messages) \o Flatten(Tail(all_messages))

\* self._endpoints[re.compile(msg['match'])].append(msg): descriptors grouped under
\* their compiled pattern, patterns kept in first-insertion order
AddEndpoint(eps, msg) ==
    IF \E i \in 1..Len(eps) : eps[i].match = msg.match
    THEN [i \in 1..Len(eps) |->
            IF eps[i].match = msg.match
            THEN [eps[i] EXCEPT !.commands = Append(@, msg)]
            ELSE eps[i]]
    ELSE Append(eps, [match |-> msg.match, commands |-> <<msg>>])

RECURSIVE RegisterLoop(_, _)
RegisterLoop(descs, eps) ==
    IF descs = <<>> THEN [raised |-> FALSE, endpoints |-> eps]
    ELSE LET msg == [Head(descs) EXCEPT !.match = Format(@)]
         IN IF ~Compiles(msg.match)
            THEN [raised |-> TRUE, endpoints |-> eps]
            ELSE RegisterLoop(Tail(descs), AddEndpoint(eps, msg))

\* _register: a fresh index, filled descriptor by descriptor
Register(all_messages) == RegisterLoop(Flatten(all_messages), <<>>)

-----------------------------------------------------------------------------
(* Routing: _dispatch *)

EmptyDict == [x \in {} |-> x]

HasCallback(cbs, frm, to) ==
    frm.id \in DOMAIN cbs /\ to.id \in DOMAIN cbs[frm.id]

\* the condition of _dispatch's if: present and time.time() < time + timeout
LiveCallback(cbs, frm, to, t) ==
    /\ HasCallback(cbs, frm, to)
    /\ t < cbs[frm.id][to.id].time + cbs[frm.id][to.id].timeout

\* del self._callbacks[frm.id][to.id]
DelCallback(cbs, frm, to) ==
    [cbs EXCEPT ![frm.id] = [k \in DOMAIN @ \ {to.id} |-> @[k]]]

CallbackArg == [kind |-> "callback", start |-> 0]
MatchArg(n) == [kind |-> "match", start |-> n]

\* a loop over the commands that leaves out the admin test
RECURSIVE MatchCommandsNoAdmin(_, _, _)
MatchCommandsNoAdmin(commands, msg, n) ==
    IF commands = <<>> THEN <<>>
    ELSE LET command == Head(commands)
             rest == MatchCommandsNoAdmin(Tail(commands), msg, n)
         IN IF command.mention /\ ~msg.mention THEN rest
            ELSE <<[func |-> command.func, arg |-> MatchArg(n), cmd |-> command]>>
                 \o rest

\* the for loop over the commands of one matching pattern
RECURSIVE MatchCommands(_, _, _)
MatchCommands(commands, msg, n) ==
    IF commands = <<>> THEN <<>>
    ELSE LET command == Head(commands)
             rest == MatchCommands(Tail(commands), msg, n)
         IN IF command.mention /\ ~msg.mention THEN rest
            ELSE IF command.admin /\ ~UserAdmin(msg.frm) THEN rest
            ELSE <<[func |-> command.func, arg |-> MatchArg(n), cmd |-> command]>>
                 \o rest

\* a loop over the patterns that stops at the first pattern that matches
RECURSIVE MatchEndpointsFirst(_, _)
MatchEndpointsFirst(eps, msg) ==
    IF eps = <<>> THEN <<>>
    ELSE LET n == Search(Head(eps).match, msg.text)
         IN IF n # 0 THEN MatchCommands(Head(eps).commands, msg, n)
            ELSE MatchEndpointsFirst(Tail(eps), msg)

\* the for loop over self._endpoints.items()
RECURSIVE MatchEndpoints(_, _)
MatchEndpoints(eps, msg) ==
    IF eps = <<>> THEN <<>>
    ELSE LET n == Search(Head(eps).match, msg.text)
         IN (IF n # 0 THEN MatchCommands(Head(eps).commands, msg, n) ELSE <<>>)
            \o MatchEndpoints(Tail(eps), msg)

CallbackCmd(func) == [match |-> <<>>, func |-> func, mention |-> FALSE, admin |-> FALSE]

\* a continuation branch that forgets the del
DispatchCallbackKeep(msg, cbs) ==
    LET entry == cbs[msg.frm.id][msg.to.id]
    IN [msg |-> [msg EXCEPT !.conversation_id = entry.id],
        handlers |-> <<[func |-> entry.func, arg |-> CallbackArg,
                        cmd |-> CallbackCmd(entry.func)]>>,
        callbacks |-> cbs,
        searched |-> <<>>,
        log |-> <<"located_callback">>]

\* _dispatch, the continuation branch
DispatchCallback(msg, cbs) ==
    LET entry == cbs[msg.frm.id][msg.to.id]
    IN [msg |-> [msg EXCEPT !.conversation_id = entry.id],
        handlers |-> <<[func |-> entry.func, arg |-> CallbackArg,
                        cmd |-> CallbackCmd(entry.func)]>>,
        callbacks |-> DelCallback(cbs, msg.frm, msg.to),
        searched |-> <<>>,
        log |-> <<"located_callback">>]

\* a pattern branch that purges the entry the lookup found expired
DispatchPatternsPurge(msg, cbs, eps) ==
    LET handlers == MatchEndpoints(eps, msg)
    IN [msg |-> msg,
        handlers |-> handlers,
        callbacks |-> IF HasCallback(cbs, msg.frm, msg.to)
                      THEN DelCallback(cbs, msg.frm, msg.to) ELSE cbs,
        searched |-> [i \in 1..Len(eps) |-> eps[i].match],
        log |-> [i \in 1..Len(handlers) |-> "located_handler"]]

\* _dispatch, the pattern branch
DispatchPatterns(msg, cbs, eps) ==
    LET handlers == MatchEndpoints(eps, msg)
    IN [msg |-> msg,
        handlers |-> handlers,
        callbacks |-> cbs,
        searched |-> [i \in 1..Len(eps) |-> eps[i].match],
        log |-> [i \in 1..Len(handlers) |-> "located_handler"]]

\* a dispatch that goes on to the patterns after a continuation was found
DispatchFallThrough(msg, cbs, eps, t) ==
    IF LiveCallback(cbs, msg.frm, msg.to, t)
    THEN [DispatchCallback(msg, cbs) EXCEPT
            !.handlers = @ \o MatchEndpoints(eps, msg),
            !.searched = [i \in 1..Len(eps) |-> eps[i].match]]
    ELSE DispatchPatterns(msg, cbs, eps)

Dispatch(msg, cbs, eps, t) ==
    IF LiveCallback(cbs, msg.frm, msg.to, t)
    THEN DispatchCallback(msg, cbs)
    ELSE DispatchPatterns(msg, cbs, eps)

\* what the done-callback of a task keeps of the message (functools.partial)
TaskMsg(msg) ==
    [frm |-> [id |-> msg.frm.id], to |-> msg.to, timestamp |-> msg.timestamp,
     conversation_id |-> msg.conversation_id]

\* a dispatch that awaits each handler inline and leaves none pending
NewTasksAwaited(handlers, msg) == EmptyBag

\* ensure_handler for every located handler: one task each, bound to the message
NewTasks(handlers, msg) ==
    IF handlers = <<>> THEN EmptyBag
    ELSE [m \in {TaskMsg(msg)} |-> Len(handlers)]

-----------------------------------------------------------------------------
(* incoming *)

NoSender(message) == message.frm = NoFrm

\* a filter that knows the bot's own id only
IsOurselvesIdOnly(message) == message.frm.id = Bot.id

IsOurselves(message) == message.frm.id \in {Bot.id, Bot.bot_id, SlackbotId}

\* a filter for edits and deletions only
IsIgnoredEdits(message) == InList(message.subtype, SubSeq(Ignoring, 1, 2))

IsIgnored(message) == InList(message.subtype, Ignoring)

Dropped(message, cbs, store, log) ==
    [msg |-> message, handlers |-> <<>>, callbacks |-> cbs, db |-> store,
     searched |-> <<>>, log |-> log, dispatched |-> FALSE]

\* an except branch that logs the duplicate and goes on
AfterSaveSwallow(message, saved, slog, cbs, eps, t) ==
    IF IsIgnored(message)
    THEN Dropped(message, cbs, saved.db, slog \o <<"ignoring">>)
    ELSE LET d == Dispatch(message, cbs, eps, t)
         IN [msg |-> d.msg, handlers |-> d.handlers, callbacks |-> d.callbacks,
             db |-> saved.db, searched |-> d.searched, log |-> slog \o d.log,
             dispatched |-> TRUE]

\* incoming from the try block on: the duplicate aborts, an ignored subtype is
\* dropped, anything else is dispatched
AfterSave(message, saved, slog, cbs, eps, t) ==
    IF saved.integrityError
    THEN Dropped(message, cbs, saved.db, slog \o <<"already_saved">>)
    ELSE IF IsIgnored(message)
    THEN Dropped(message, cbs, saved.db, slog \o <<"ignoring">>)
    ELSE LET d == Dispatch(message, cbs, eps, t)
         IN [msg |-> d.msg, handlers |-> d.handlers, callbacks |-> d.callbacks,
             db |-> saved.db, searched |-> d.searched, log |-> slog \o d.log,
             dispatched |-> TRUE]

\* an incoming that saves what the policy covers before it looks at the sender
IncomingResultSaveFirst(raw, cbs, eps, store, policy, t) ==
    LET message == FromRaw(raw)
        saved == IF SaveCovers(policy, message)
                 THEN SaveIncoming(store, message)
                 ELSE [integrityError |-> FALSE, db |-> store]
    IN IF saved.integrityError
       THEN Dropped(message, cbs, saved.db, <<"already_saved">>)
       ELSE IF NoSender(message) THEN Dropped(message, cbs, saved.db, <<"no_frm">>)
       ELSE IF IsOurselves(message) THEN Dropped(message, cbs, saved.db, <<"ourselves">>)
       ELSE AfterSave(message, saved, <<>>, cbs, eps, t)

\* incoming(msg) as a function of the state it reads
IncomingResult(raw, cbs, eps, store, policy, t) ==
    LET message == FromRaw(raw)
    IN IF NoSender(message) THEN Dropped(message, cbs, store, <<"no_frm">>)
       ELSE IF IsOurselves(message) THEN Dropped(message, cbs, store, <<"ourselves">>)
       ELSE IF SaveCovers(policy, message)
       THEN AfterSave(message, SaveIncoming(store, message), <<"saving">>, cbs, eps, t)
       ELSE AfterSave(message, [integrityError |-> FALSE, db |-> store], <<>>,
                      cbs, eps, t)

-----------------------------------------------------------------------------
(* Handler results and handler_done_callback *)

CallbackFuncs == {"cb1", "cb2"}
Timeouts == {1}
DefaultTimeout == 300
ResultKeys == {"func", "to", "frm", "timeout"}

NoneResult ==
    [isNone |-> TRUE, keys |-> {}, func |-> "cb1", to |-> C1, frm |-> U1, timeout |-> 1]

MapResult(keys, func, to, frm, timeout) ==
    [isNone |-> FALSE, keys |-> keys,
     func |-> IF "func" \in keys THEN func ELSE "cb1",
     to |-> IF "to" \in keys THEN to ELSE C1,
     frm |-> IF "frm" \in keys THEN frm ELSE U1,
     timeout |-> IF "timeout" \in keys THEN timeout ELSE 1]

\* what a handler coroutine may return: None, or a mapping over the keys the
\* completion callback reads
Results ==
    {NoneResult} \cup
    {MapResult(keys, func, to, frm, timeout) :
        keys \in SUBSET ResultKeys, func \in CallbackFuncs, to \in {C2},
        frm \in {U1, BotUser}, timeout \in Timeouts}

IngestResults ==
    {NoneResult, MapResult({"func"}, "cb1", C1, U1, 1),
     MapResult({"func", "frm", "timeout"}, "cb1", C1, BotUser, 1)}

\* Python truth value of the result: None and the empty mapping are false
Truthy(result) == ~result.isNone /\ result.keys # {}

\* a test of the truth value alone
RequestsCallbackAny(result) == Truthy(result)

\* if result and 'func' in result
RequestsCallback(result) == Truthy(result) /\ "func" \in result.keys

\* a 'to' that defaults to the sender of the message
ResultToSender(result, msg) == IF "to" \in result.keys THEN result.to ELSE msg.frm

ResultTo(result, msg) == IF "to" \in result.keys THEN result.to ELSE msg.to

\* a 'frm' that defaults to the destination of the message
ResultFrmDest(result, msg) == IF "frm" \in result.keys THEN result.frm ELSE msg.to

ResultFrm(result, msg) == IF "frm" \in result.keys THEN result.frm ELSE msg.frm
ResultTimeout(result) ==
    IF "timeout" \in result.keys THEN result.timeout ELSE DefaultTimeout

\* an id taken from the message's own timestamp whatever it carries
ConversationIdOwn(msg) == msg.timestamp

\* msg.conversation_id or msg.timestamp
ConversationId(msg) ==
    IF msg.conversation_id # NoConv THEN msg.conversation_id ELSE msg.timestamp

\* an entry stamped with the time of the message instead of the completion's
NewEntryAtMessage(result, msg, t) ==
    [func |-> result.func, time |-> msg.timestamp, timeout |-> ResultTimeout(result),
     id |-> ConversationId(msg)]

\* the dict literal of handler_done_callback; t is time.time() at the completion
NewEntry(result, msg, t) ==
    [func |-> result.func, time |-> t, timeout |-> ResultTimeout(result),
     id |-> ConversationId(msg)]

\* a write that keeps the entry the pair already has (setdefault)
SetCallbackKeep(cbs, frm, to, entry) ==
    LET inner == IF frm.id \in DOMAIN cbs THEN cbs[frm.id] ELSE EmptyDict
        inner2 == [k \in DOMAIN inner \cup {to.id} |->
                      IF k \in DOMAIN inner THEN inner[k] ELSE entry]
    IN [f \in DOMAIN cbs \cup {frm.id} |-> IF f = frm.id THEN inner2 ELSE cbs[f]]

\* self._callbacks[frm.id][to.id] = {...}, creating the inner dict when missing
SetCallback(cbs, frm, to, entry) ==
    LET inner == IF frm.id \in DOMAIN cbs THEN cbs[frm.id] ELSE EmptyDict
        inner2 == [k \in DOMAIN inner \cup {to.id} |->
                      IF k = to.id THEN entry ELSE inner[k]]
    IN [f \in DOMAIN cbs \cup {frm.id} |-> IF f = frm.id THEN inner2 ELSE cbs[f]]

\* handler_done_callback after f.result() returned
DoneResult(cbs, result, msg, t) ==
    IF RequestsCallback(result)
    THEN SetCallback(cbs, ResultFrm(result, msg), ResultTo(result, msg),
                     NewEntry(result, msg, t))
    ELSE cbs

\* a failure that takes the other tasks of the message with it
DoneRaisedCancels(cbs, pending, task) ==
    [callbacks |-> cbs, tasks |-> [m \in DOMAIN pending \ {task} |-> pending[m]]]

\* handler_done_callback when f.result() raises: logged and raised again into the
\* event loop, which reports it; the task is not scheduled again
DoneRaised(cbs, pending, task) ==
    [callbacks |-> cbs, tasks |-> pending (-) SetToBag({task})]

-----------------------------------------------------------------------------
(* The user store: UserStore *)

UserIds == {"U1", "B1"}
NoDm == "None"

\* self._refresh, in ticks of the clock
Refresh == 1

\* client.get_user_info(id), client.get_bot_info(id): the raw data Slack holds
GetUserInfo(id) == [id |-> id, api |-> "users.info"]
GetBotInfo(id) == [id |-> id, api |-> "bots.info"]

\* client.get_user_dm_channel(id)
GetUserDmChannel(id) == IF id = "U1" THEN "D1" ELSE "D2"

StartsWithB(id) == id \in {"B1"}

User(id, raw, dm_id, last_update) ==
    [id |-> id, raw |-> raw, dm_id |-> dm_id, last_update |-> last_update]

NoUser == User("None", GetUserInfo("None"), NoDm, 0)

EmptyTable == [x \in {} |-> x]

\* database.user.find
Find(table, id) ==
    IF id \in DOMAIN table
    THEN [found |-> TRUE, raw |-> table[id].raw, dm_id |-> table[id].dm_id,
          last_update |-> table[id].last_update]
    ELSE [found |-> FALSE, raw |-> NoUser.raw, dm_id |-> NoDm, last_update |-> 0]

\* database.user.add + commit: the row of the user, inserted or replaced
Add(table, user) ==
    [i \in DOMAIN table \cup {user.id} |->
        IF i = user.id
        THEN [raw |-> user.raw, dm_id |-> user.dm_id, last_update |-> user.last_update]
        ELSE table[i]]

\* database.user.update_dm_id + commit
UpdateDmId(table, id, dm_id) ==
    [i \in DOMAIN table |-> IF i = id THEN [table[i] EXCEPT !.dm_id = dm_id] ELSE table[i]]

\* _query: the user as Slack knows it now, with the dm id handed in
Query(id, dm_id, t) ==
    User(id, IF StartsWithB(id) THEN GetBotInfo(id) ELSE GetUserInfo(id), dm_id, t)

\* ensure_dm, run to its end: a user without dm id gets the one of the client,
\* and the row is updated
EnsureDm(user, table) ==
    IF user.dm_id = NoDm
    THEN [user |-> [user EXCEPT !.dm_id = GetUserDmChannel(user.id)],
          table |-> UpdateDmId(table, user.id, GetUserDmChannel(user.id))]
    ELSE [user |-> user, table |-> table]

\* get(id_, update, dm): a stale or to-be-updated row is queried again and
\* written, a fresh row makes the user, an absent user is queried and added.
\* With dm set, line 92 calls ensure_dm without await: the call makes a coroutine
\* object that nothing runs, so its body never executes
Get(id, update, dm, table, t) ==
    LET data == Find(table, id)
        loaded ==
            IF data.found /\ (update \/ data.last_update < t - Refresh)
            THEN [user |-> Query(id, data.dm_id, t),
                  table |-> Add(table, Query(id, data.dm_id, t)), queried |-> TRUE]
            ELSE IF data.found
            THEN [user |-> User(id, data.raw, data.dm_id, data.last_update),
                  table |-> table, queried |-> FALSE]
            ELSE [user |-> Query(id, NoDm, t),
                  table |-> Add(table, Query(id, NoDm, t)), queried |-> TRUE]
    IN IF dm THEN loaded ELSE loaded

NoGet ==
    [called |-> FALSE, id |-> "None", update |-> FALSE, dm |-> FALSE, user |-> NoUser,
     queried |-> FALSE, before |-> EmptyTable, table |-> EmptyTable]

\* the events of the real-time API that the plugin is given
RtmEvents == {"connected", "hello", "message", "goodbye", "team_migration_started"}

\* the delay of asyncio.sleep in _rtm_reconnect, in seconds
Backoff == 1

\* SirBotSlack.__init__: not started, no reconnect under way
NoRtm ==
    [started |-> FALSE, pc |-> "idle", attempts |-> 0, delay |-> 0, last |-> "none",
     forwarded |-> {}]

\* _incoming_rtm(event) up to its first suspension: a reconnect is begun and
\* connect() called, or the event is given to the event dispatcher, or nothing
IncomingRtm(r, msg_type) ==
    IF r.started \/ msg_type = "connected"
    THEN IF msg_type \in {"team_migration_started", "goodbye"}
         THEN [r EXCEPT !.pc = "connecting", !.attempts = 1, !.delay = 0,
                        !.last = "none"]
         ELSE [r EXCEPT !.forwarded = @ \cup {msg_type}]
    ELSE r

InitPlugin ==
    /\ users = EmptyTable
    /\ got = NoGet
    /\ rtm = NoRtm

-----------------------------------------------------------------------------
(* The frame of the running callback *)

Pair(frm, to) == <<frm.id, to.id>>

KeysOf(cbs) == UNION {{<<f, t>> : t \in DOMAIN cbs[f]} : f \in DOMAIN cbs}

\* the pairs whose entry a step deleted, and those it wrote
Removed(old, new) == KeysOf(old) \ KeysOf(new)
Written(old, new) ==
    {k \in KeysOf(new) : k \notin KeysOf(old) \/ old[k[1]][k[2]] # new[k[1]][k[2]]}

\* a result that names a callback and no 'to', for the sender of its message
PlainRequest(result, msg) ==
    /\ ~result.isNone
    /\ "func" \in result.keys
    /\ "to" \notin result.keys
    /\ ("frm" \in result.keys => result.frm.id = msg.frm.id)

Before ==
    [callbacks |-> callbacks, tasks |-> tasks, db |-> db, spent |-> spent,
     promise |-> promise, threads |-> threads, endpoints |-> endpoints]

NoBefore ==
    [callbacks |-> EmptyDict, tasks |-> EmptyBag, db |-> {}, spent |-> {},
     promise |-> {}, threads |-> {}, endpoints |-> <<>>]

Idle ==
    [op |-> "idle", msg |-> NoMsg, log |-> <<>>, searched |-> <<>>,
     handlers |-> <<>>, dispatched |-> FALSE, task |-> TaskMsg(NoMsg),
     result |-> NoneResult, raised |-> FALSE, before |-> NoBefore]

-----------------------------------------------------------------------------
(* Initial state and actions *)

InitDispatcher ==
    /\ callbacks = EmptyDict
    /\ plugins = Plugins1
    /\ endpoints = Register(Plugins1).endpoints
    /\ built = ~Register(Plugins1).raised
    /\ threads = {}
    /\ tasks = EmptyBag
    /\ nTasks = 0
    /\ db = {}
    /\ now = 0
    /\ spent = {}
    /\ promise = {}
    /\ failed = {}
    /\ frame = Idle
    /\ InitPlugin

Init == InitDispatcher /\ save = SaveFalse

InitIngest == InitDispatcher /\ save \in {SaveTrue, SaveList}

\* the dispatcher built from a provider list that holds a scoped descriptor, or
\* one whose pattern does not compile: _register leaves the index as far as it got
InitThreads ==
    /\ plugins \in {Plugins2, Plugins3}
    /\ endpoints = Register(plugins).endpoints
    /\ built = ~Register(plugins).raised
    /\ callbacks = EmptyDict
    /\ threads = {}
    /\ tasks = EmptyBag
    /\ nTasks = 0
    /\ db = {}
    /\ save = SaveFalse
    /\ now = 0
    /\ spent = {}
    /\ promise = {}
    /\ failed = {}
    /\ frame = Idle
    /\ InitPlugin

\* incoming(msg): filters, persistence, routing, and the scheduling of the handlers
Incoming(raw) ==
    LET r == IncomingResult(raw, callbacks, endpoints, db, save, now)
        key == Pair(r.msg.frm, r.msg.to)
    IN /\ frame = Idle
       /\ built
       /\ nTasks + Len(r.handlers) <= MaxTasks
       /\ nTasks' = nTasks + Len(r.handlers)
       /\ callbacks' = r.callbacks
       /\ db' = r.db
       /\ tasks' = tasks (+) NewTasks(r.handlers, r.msg)
       /\ spent' = spent \cup Removed(callbacks, callbacks')
       /\ promise' = IF r.dispatched THEN {p \in promise : p.key # key} ELSE promise
       /\ frame' = [Idle EXCEPT !.op = "incoming", !.msg = r.msg, !.log = r.log,
                       !.searched = r.searched, !.handlers = r.handlers,
                       !.dispatched = r.dispatched, !.before = Before]
       /\ UNCHANGED <<endpoints, plugins, built, pluginVars, threads, save, now, failed>>

\* a handler task finishes with a return value: handler_done_callback registers
\* the continuation it requests
HandlerReturn(task, result) ==
    LET written == Written(callbacks, callbacks')
        timeout == IF "timeout" \in result.keys THEN result.timeout ELSE DefaultTimeout
    IN /\ frame = Idle
       /\ tasks' = tasks (-) SetToBag({task})
       /\ callbacks' = DoneResult(callbacks, result, task, now)
       /\ spent' = spent \ written
       /\ promise' =
            {IF p.key \in written THEN [p EXCEPT !.current = FALSE] ELSE p : p \in promise}
            \cup (IF PlainRequest(result, task)
                  THEN {[key |-> Pair(task.frm, task.to), func |-> result.func,
                         at |-> now, timeout |-> timeout, current |-> TRUE]}
                  ELSE {})
       /\ frame' = [Idle EXCEPT !.op = "done", !.task = task, !.result = result,
                       !.before = Before]
       /\ UNCHANGED <<endpoints, plugins, built, pluginVars, threads, nTasks, db, save, now, failed>>

\* a handler task finishes with an exception
HandlerRaise(task) ==
    /\ frame = Idle
    /\ callbacks' = DoneRaised(callbacks, tasks, task).callbacks
    /\ tasks' = DoneRaised(callbacks, tasks, task).tasks
    /\ failed' = failed \cup {task}
    /\ frame' = [Idle EXCEPT !.op = "done", !.task = task, !.raised = TRUE,
                    !.before = Before]
    /\ UNCHANGED <<endpoints, plugins, built, pluginVars, threads, nTasks, db, save, now, spent, promise>>

\* time.time() advances between two callbacks of the loop
Tick ==
    /\ frame = Idle
    /\ now < MaxTime
    /\ now' = now + 1
    /\ UNCHANGED <<callbacks, endpoints, plugins, built, pluginVars, threads, tasks, nTasks, db, save,
                   spent, promise, failed, frame>>

\* the running callback returns to the event loop
Yield ==
    /\ frame # Idle
    /\ frame' = Idle
    /\ UNCHANGED <<callbacks, endpoints, plugins, built, pluginVars, threads, tasks, nTasks, db, save,
                   now, spent, promise, failed>>

\* registerThread(threadId, key, callback): inserts or overwrites under the key
RegisterThread(thread, key, func) ==
    /\ frame = Idle
    /\ built
    /\ threads' = {e \in threads : ~(e.thread = thread /\ e.key = key)}
                   \cup {[thread |-> thread, key |-> key, func |-> func]}
    /\ UNCHANGED <<callbacks, endpoints, plugins, built, pluginVars, tasks, nTasks, db, save, now,
                   spent, promise, failed, frame>>

\* _register(): runs the providers' hooks again and rebuilds the index from an
\* empty one; a plain function, so one step of the loop.  A pattern that does not
\* compile ends it where it was
Rebuild(all_messages) ==
    /\ frame = Idle
    /\ built
    /\ plugins' = all_messages
    /\ endpoints' = Register(all_messages).endpoints
    /\ frame' = [Idle EXCEPT !.op = "register",
                    !.raised = Register(all_messages).raised, !.before = Before]
    /\ UNCHANGED <<callbacks, built, pluginVars, threads, tasks, nTasks, db, save, now, spent,
                   promise, failed>>

IncomingStep == \E raw \in RouteMessages : Incoming(raw)
ReturnStep == \E task \in BagToSet(tasks) : \E result \in Results : HandlerReturn(task, result)
RaiseStep == \E task \in BagToSet(tasks) : HandlerRaise(task)

IngestStep == \E raw \in IngestMessages : Incoming(raw)
IngestReturnStep ==
    \E task \in BagToSet(tasks) : \E result \in IngestResults : HandlerReturn(task, result)

ThreadIncomingStep == \E raw \in ThreadMessages : Incoming(raw)
ThreadStep == \E key \in {"U1", "all"} : \E func \in CallbackFuncs : RegisterThread("T1", key, func)

Next == IncomingStep \/ ReturnStep \/ RaiseStep \/ Tick \/ Yield

NextIngest == IngestStep \/ IngestReturnStep \/ RaiseStep \/ Tick \/ Yield

\* the dispatcher under users' messages and every handler result
Spec == Init /\ [][Next]_vars

\* the dispatcher under every sender, subtype and save policy
SpecIngest == InitIngest /\ [][NextIngest]_vars

RebuildStep == \E all_messages \in {Plugins2, Plugins3} : Rebuild(all_messages)

NextThreads ==
    \/ ThreadIncomingStep
    \/ IngestReturnStep
    \/ RaiseStep
    \/ Tick
    \/ Yield
    \/ ThreadStep
    \/ RebuildStep

\* the dispatcher under the other provider lists, with threads and thread
\* continuations around it
SpecThreads == InitThreads /\ [][NextThreads]_vars

\* users.get(id_, update, dm), from its call to its return
GetUser(id, update, dm) ==
    LET r == Get(id, update, dm, users, now)
    IN /\ users' = r.table
       /\ got' = [called |-> TRUE, id |-> id, update |-> update, dm |-> dm,
                  user |-> r.user, queried |-> r.queried, before |-> users,
                  table |-> r.table]
       /\ UNCHANGED <<dispatcherVars, now, rtm>>

\* await users.ensure_dm(user), for a user made from its row
AwaitEnsureDm(id) ==
    LET row == Find(users, id)
    IN /\ users' = EnsureDm(User(id, row.raw, row.dm_id, row.last_update), users).table
       /\ UNCHANGED <<dispatcherVars, now, got, rtm>>

GetStep == \E id \in UserIds : \E update \in BOOLEAN : \E dm \in BOOLEAN : GetUser(id, update, dm)
EnsureDmStep == \E id \in DOMAIN users : AwaitEnsureDm(id)

NextPlugin == GetStep \/ EnsureDmStep \/ Tick

\* configure(): the real-time client is made with _incoming_rtm as its callback,
\* and the plugin is marked started
Configure ==
    /\ ~rtm.started
    /\ rtm' = [rtm EXCEPT !.started = TRUE]
    /\ UNCHANGED <<dispatcherVars, now, users, got>>

\* the client calls _incoming_rtm with an event; the connection delivers no
\* event while it is being made again
Event(msg_type) ==
    /\ rtm.started
    /\ rtm.pc = "idle"
    /\ rtm' = IncomingRtm(rtm, msg_type)
    /\ UNCHANGED <<dispatcherVars, now, users, got>>

\* connect() returns: _rtm_reconnect returns, and with it every call of
\* _rtm_reconnect that awaits it, and _incoming_rtm
ConnectReturns ==
    /\ rtm.pc = "connecting"
    /\ rtm' = [rtm EXCEPT !.pc = "idle", !.last = "ok"]
    /\ UNCHANGED <<dispatcherVars, now, users, got>>

\* connect() raises SlackClientError: the except branch starts the sleep
ConnectRaises ==
    /\ rtm.pc = "connecting"
    /\ rtm' = [rtm EXCEPT !.pc = "sleeping", !.last = "raised", !.delay = Backoff]
    /\ UNCHANGED <<dispatcherVars, now, users, got>>

Connect == ConnectReturns \/ ConnectRaises

\* the sleep is over: _rtm_reconnect calls itself, which calls connect() again.
\* Nothing in the code counts the calls; the model tells the first MaxAttempts apart
Sleep ==
    /\ rtm.pc = "sleeping"
    /\ rtm' = [rtm EXCEPT !.pc = "connecting",
                          !.attempts = IF @ < MaxAttempts THEN @ + 1 ELSE @]
    /\ UNCHANGED <<dispatcherVars, now, users, got>>

EventStep == \E msg_type \in RtmEvents : Event(msg_type)

NextRtm == Configure \/ EventStep \/ ConnectReturns \/ ConnectRaises \/ Sleep \/ Tick

\* the supervisor of the real-time connection; the event loop runs a connect()
\* and a sleep that are under way to their end
SpecRtm == Init /\ [][NextRtm]_vars /\ WF_vars(Connect) /\ WF_vars(Sleep)

\* the user store of the plugin, around an idle dispatcher
SpecPlugin == Init /\ [][NextPlugin]_vars

-----------------------------------------------------------------------------
(* What the properties read of a frame *)

FrameIncoming == frame.op = "incoming"
FrameRouted == frame.op = "incoming" /\ frame.dispatched
FrameKey == <<frame.msg.frm.id, frame.msg.to.id>>

\* the continuation stored for the message's pair when the callback started
FrameHasEntry == FrameKey \in KeysOf(frame.before.callbacks)
FrameEntry == frame.before.callbacks[FrameKey[1]][FrameKey[2]]
FrameLive == FrameHasEntry /\ now < FrameEntry.time + FrameEntry.timeout

FrameViaCallback == \E i \in 1..Len(frame.handlers) : frame.handlers[i].arg.kind = "callback"
RegistryPatterns == [i \in 1..Len(endpoints) |-> endpoints[i].match]

\* the tasks the callback scheduled
FrameScheduled == BagCardinality(tasks) - BagCardinality(frame.before.tasks)

-----------------------------------------------------------------------------
(* C1 *)

\* C1: a routed message whose pair has a live continuation gets exactly one
\* handler, the continuation's callback with the marker 'callback'; no pattern is
\* searched for it; its conversation id is the one stored in the continuation.
\* Patterns are searched only when no live continuation was found.
C1_RoutingExclusive ==
    FrameRouted =>
        /\ FrameLive =>
              /\ Len(frame.handlers) = 1
              /\ frame.handlers[1].func = FrameEntry.func
              /\ frame.handlers[1].arg = [kind |-> "callback", start |-> 0]
              /\ frame.searched = <<>>
              /\ frame.msg.conversation_id = FrameEntry.id
              /\ FrameScheduled = 1
              /\ \E m \in BagToSet(tasks) :
                    /\ m.conversation_id = FrameEntry.id
                    /\ m.timestamp = frame.msg.timestamp
                    /\ CopiesIn(m, tasks) = CopiesIn(m, frame.before.tasks) + 1
        /\ frame.searched # <<>> => ~FrameLive

\* a message whose text matches a registered pattern is routed to a live continuation
C1_Witness ==
    /\ FrameRouted
    /\ FrameLive
    /\ frame.msg.text = <<"a">>
    /\ frame.msg.mention
    /\ FrameScheduled = 1

-----------------------------------------------------------------------------
(* C2 *)

\* C2: a routed message whose pair has a live continuation consumes exactly that
\* entry and removes it in the same step, leaving every other entry alone; a
\* message of a pair whose continuation was consumed, with no registration since,
\* goes to the patterns; a callback is invoked only from an entry that was stored.
C2_SingleUse ==
    FrameRouted =>
        /\ FrameLive =>
              /\ FrameKey \notin KeysOf(callbacks)
              /\ Removed(frame.before.callbacks, callbacks) = {FrameKey}
              /\ Written(frame.before.callbacks, callbacks) = {}
              /\ Len(frame.handlers) = 1
              /\ frame.handlers[1].func = FrameEntry.func
        /\ FrameKey \in frame.before.spent =>
              /\ ~FrameViaCallback
              /\ frame.searched = RegistryPatterns
        /\ FrameViaCallback => FrameLive

\* the second message of a pair after its continuation was consumed
C2_Witness ==
    /\ FrameRouted
    /\ FrameKey \in frame.before.spent
    /\ ~FrameHasEntry
    /\ frame.searched = RegistryPatterns

-----------------------------------------------------------------------------
(* C3 *)

\* the requests made for the message's pair since the pair's last routed message,
\* whose window of timeout seconds holds the present time
FramePromises ==
    {p \in frame.before.promise : p.key = FrameKey /\ now < p.at + p.timeout}

FrameOnlyCallback(func) ==
    /\ Len(frame.handlers) = 1
    /\ frame.handlers[1].func = func
    /\ frame.handlers[1].arg.kind = "callback"
    /\ frame.searched = <<>>

\* C3 as stated: after a handler for a message from S to D completed with a
\* callback and a timeout T (no 'to', 'from' absent or S), the next message from S
\* to D routed within T seconds goes to that callback only.
C3_AsStated ==
    FrameRouted => \A p \in FramePromises : FrameOnlyCallback(p.func)

\* C3 amended: the same, provided no other handler completion has registered a
\* continuation for (S, D) after that completion.
C3_EndToEnd ==
    FrameRouted => \A p \in FramePromises : p.current => FrameOnlyCallback(p.func)

\* the next message of the pair arrives in the window of a request that stands
C3_Witness ==
    /\ FrameRouted
    /\ \E p \in FramePromises : p.current /\ p.timeout = 1
    /\ frame.msg.text = <<"a">>

-----------------------------------------------------------------------------
(* C4 *)

\* the save policy covers the message of the frame
FrameSaveCovered ==
    \/ ~save.isList /\ save.value
    \/ save.isList /\ \E i \in 1..Len(save.list) : save.list[i] = frame.msg.subtype

\* the callback left the continuation map and the tasks as it found them
FrameNoOp ==
    /\ frame.handlers = <<>>
    /\ ~frame.dispatched
    /\ frame.searched = <<>>
    /\ tasks = frame.before.tasks
    /\ callbacks = frame.before.callbacks

\* C4: a delivery of a message the save policy covers, whose timestamp is already
\* stored, schedules no handler, looks up and consumes no continuation and leaves
\* the continuation map and the database unchanged.
C4_DuplicateNoOp ==
    (FrameIncoming /\ FrameSaveCovered /\ frame.msg.timestamp \in frame.before.db)
        => FrameNoOp /\ db = frame.before.db

\* the second delivery of a user's message whose pair has a live continuation
C4_Witness ==
    /\ FrameIncoming
    /\ FrameSaveCovered
    /\ frame.msg.timestamp \in frame.before.db
    /\ frame.msg.frm.id = "U1"
    /\ frame.msg.subtype = NoSubtype
    /\ FrameLive
    /\ FrameKey \in KeysOf(callbacks)

-----------------------------------------------------------------------------
(* C5 *)

\* C5: a message sent by the bot's own id or by its bot-surrogate id schedules no
\* handler and leaves the continuation map unchanged, whatever the map holds.
C5_SelfFilter ==
    (FrameIncoming /\ frame.msg.frm.id \in {BotId, BotBotId}) => FrameNoOp

\* a message of the bot, for a pair that has a live continuation
C5_Witness ==
    /\ FrameIncoming
    /\ frame.msg.frm.id = BotId
    /\ frame.msg.subtype = NoSubtype
    /\ FrameLive
    /\ FrameKey \in KeysOf(callbacks)

-----------------------------------------------------------------------------
(* C6 *)

SuppressedSubtypes ==
    {"message_changed", "message_deleted", "channel_join", "channel_leave",
     "message_replied"}

\* C6: a message with a suppressed subtype schedules no handler, has no pattern
\* searched and no continuation looked up: a live continuation of its pair stays.
C6_SubtypeSuppressed ==
    (FrameIncoming /\ frame.msg.subtype \in SuppressedSubtypes) => FrameNoOp

\* a user's channel_join message, for a pair that has a live continuation
C6_Witness ==
    /\ FrameIncoming
    /\ frame.msg.subtype = "channel_join"
    /\ frame.msg.frm.id = "U1"
    /\ frame.log = <<"ignoring">>
    /\ FrameLive
    /\ FrameKey \in KeysOf(callbacks)

-----------------------------------------------------------------------------
(* C7 *)

FrameSenderAdmin == <<"is_admin", TRUE>> \in frame.msg.frm.raw

\* C7: no handler located through a descriptor with the admin flag is scheduled for
\* a message whose sender is not an admin.
C7_AdminGate ==
    FrameIncoming =>
        \A i \in 1..Len(frame.handlers) :
            (frame.handlers[i].arg.kind = "match" /\ frame.handlers[i].cmd.admin)
                => FrameSenderAdmin

\* a message of a sender who is no admin matches the pattern of the admin
\* descriptor, and another handler is scheduled for it
C7_Witness ==
    /\ FrameRouted
    /\ ~FrameSenderAdmin
    /\ frame.msg.text = <<BotMention, "a">>
    /\ Len(frame.handlers) = 1
    /\ frame.handlers[1].func = "h1"

-----------------------------------------------------------------------------
(* C8 *)

\* the descriptors the plugins supplied, with the bot's name filled in
Registered == {Dh1, Dh2, [Dh3 EXCEPT !.match = <<BotMention>>]}

Contains(text, match) ==
    \E i \in 0..(Len(text) - Len(match)) :
        \A k \in 1..Len(match) : text[i + k] = match[k]

Qualifies(d) ==
    /\ Contains(frame.msg.text, d.match)
    /\ d.mention => frame.msg.mention
    /\ d.admin => FrameSenderAdmin

HandlersOf(d) == {i \in 1..Len(frame.handlers) : frame.handlers[i].cmd = d}

-----------------------------------------------------------------------------
(* C9 *)

FrameDone == frame.op = "done"

\* C9: a handler task that raises registers nothing and ends alone: the
\* continuation map is unchanged and every other pending task is still pending;
\* a task of the same message that returns afterwards has its continuation
\* registered.
C9_FailureIsolated ==
    /\ (FrameDone /\ frame.raised) =>
          /\ callbacks = frame.before.callbacks
          /\ tasks (+) SetToBag({frame.task}) = frame.before.tasks
    /\ (FrameDone /\ ~frame.raised /\ frame.task \in failed
          /\ ~frame.result.isNone /\ frame.result.keys = {"func"}) =>
          /\ <<frame.task.frm.id, frame.task.to.id>> \in KeysOf(callbacks)
          /\ callbacks[frame.task.frm.id][frame.task.to.id].func = frame.result.func

\* a handler returns a continuation request after another handler of the same
\* message has raised
C9_Witness ==
    /\ FrameDone
    /\ ~frame.raised
    /\ frame.task \in failed
    /\ frame.result.keys = {"func"}
    /\ callbacks # frame.before.callbacks

-----------------------------------------------------------------------------
(* C10 *)

FrameResultHasCallback == ~frame.result.isNone /\ "func" \in frame.result.keys

\* C10: a completion whose result is None, empty, or a mapping without a callback
\* leaves the continuation map unchanged.
C10_NoCallbackNoOp ==
    (FrameDone /\ ~frame.raised /\ ~FrameResultHasCallback)
        => callbacks = frame.before.callbacks

\* a handler returns a mapping that names a destination and a timeout only
C10_Witness ==
    /\ FrameDone
    /\ ~frame.raised
    /\ frame.result.keys = {"to", "timeout"}
    /\ callbacks = frame.before.callbacks
    /\ callbacks # EmptyDict

-----------------------------------------------------------------------------
(* C11 *)

\* the pair of the message has an entry whose window is over
FrameExpired == FrameHasEntry /\ now > FrameEntry.time + FrameEntry.timeout

\* C11: a routed message whose pair has an expired continuation goes to the
\* patterns, gets no conversation id, and the expired entry stays in the map as it
\* was; no step removes an expired entry.
C11_LazyExpiry ==
    /\ (FrameRouted /\ FrameExpired) =>
          /\ ~FrameViaCallback
          /\ frame.searched = RegistryPatterns
          /\ frame.msg.conversation_id = NoConv
          /\ FrameKey \in KeysOf(callbacks)
          /\ callbacks[FrameKey[1]][FrameKey[2]] = FrameEntry
    /\ frame # Idle =>
          \A k \in Removed(frame.before.callbacks, callbacks) :
              ~(now > frame.before.callbacks[k[1]][k[2]].time
                        + frame.before.callbacks[k[1]][k[2]].timeout)

\* a message arrives two seconds after a continuation of one second was
\* registered for its pair, and a pattern handler is scheduled for it
C11_Witness ==
    /\ FrameRouted
    /\ FrameExpired
    /\ FrameEntry.timeout = 1
    /\ now = FrameEntry.time + 2
    /\ Len(frame.handlers) = 1
    /\ frame.handlers[1].arg.kind = "match"

-----------------------------------------------------------------------------
(* C12 *)

\* the task a handler located for the frame's message runs as
FrameTask ==
    [frm |-> [id |-> frame.msg.frm.id], to |-> frame.msg.to,
     timestamp |-> frame.msg.timestamp,
     conversation_id |-> frame.msg.conversation_id]

\* C12: incoming returns with every handler it located still pending and every
\* task that was pending before still pending; it registers nothing, so a message
\* whose pair has no entry yet, because the handler of the message before it has
\* not completed, goes to the patterns.
C12_NoWait ==
    FrameIncoming =>
        /\ \A m \in BagToSet(tasks) \cup BagToSet(frame.before.tasks) \cup {FrameTask} :
              CopiesIn(m, tasks) =
                  CopiesIn(m, frame.before.tasks)
                  + (IF m = FrameTask THEN Len(frame.handlers) ELSE 0)
        /\ Written(frame.before.callbacks, callbacks) = {}
        /\ (FrameRouted /\ ~FrameHasEntry) =>
              /\ ~FrameViaCallback
              /\ frame.searched = RegistryPatterns

\* the next message of a pair is dispatched, to a pattern handler, while the
\* handler task of the message before it is still pending
C12_Witness ==
    /\ FrameRouted
    /\ ~FrameHasEntry
    /\ \E m \in BagToSet(frame.before.tasks) :
          /\ m.frm.id = frame.msg.frm.id
          /\ m.to = frame.msg.to
          /\ m.timestamp # frame.msg.timestamp
          /\ CopiesIn(m, tasks) = 1
    /\ Len(frame.handlers) = 1
    /\ frame.handlers[1].arg.kind = "match"

-----------------------------------------------------------------------------
(* C13 *)

\* a handler returned a request with a callback that names neither 'to' nor 'frm'
FrameBareRequest ==
    /\ FrameDone
    /\ ~frame.raised
    /\ FrameResultHasCallback
    /\ "to" \notin frame.result.keys
    /\ "frm" \notin frame.result.keys

HasEntryFor(cbs, key, func) ==
    key \in KeysOf(cbs) /\ cbs[key[1]][key[2]].func = func

\* the entries of every pair but `key` are what they were before the callback ran
OthersUnchanged(key) ==
    \A k \in (KeysOf(callbacks) \cup KeysOf(frame.before.callbacks)) \ {key} :
        /\ k \in KeysOf(callbacks)
        /\ k \in KeysOf(frame.before.callbacks)
        /\ callbacks[k[1]][k[2]] = frame.before.callbacks[k[1]][k[2]]

\* C13 as stated: a request that names neither 'to' nor 'from' is registered with
\* 'from' the destination of the original message and 'to' its sender.
C13_AsStated ==
    FrameBareRequest =>
        HasEntryFor(callbacks, <<frame.task.to.id, frame.task.frm.id>>,
                    frame.result.func)

\* C13 amended: such a request is registered with 'frm' the sender of the original
\* message and 'to' its destination, and the entry of no other pair changes.
C13_KeyDefaults ==
    FrameBareRequest =>
        /\ HasEntryFor(callbacks, <<frame.task.frm.id, frame.task.to.id>>,
                       frame.result.func)
        /\ OthersUnchanged(<<frame.task.frm.id, frame.task.to.id>>)

\* a handler of a message from U1 to C1 returns a callback and a timeout only
C13_Witness ==
    /\ FrameBareRequest
    /\ frame.result.keys = {"func", "timeout"}
    /\ frame.task.frm.id = "U1"
    /\ frame.task.to.id = "C1"
    /\ Written(frame.before.callbacks, callbacks) = {<<"U1", "C1">>}

-----------------------------------------------------------------------------
(* C14 *)

\* a handler returned a request with a callback
FrameRequest == FrameDone /\ ~frame.raised /\ FrameResultHasCallback

\* the pair the request of the frame names, the original message's by default
FrameRequestKey ==
    <<IF "frm" \in frame.result.keys THEN frame.result.frm.id ELSE frame.task.frm.id,
      IF "to" \in frame.result.keys THEN frame.result.to.id ELSE frame.task.to.id>>

FrameRegistered == callbacks[FrameRequestKey[1]][FrameRequestKey[2]]

\* C14: the entry a completion registers holds the requested callback, the
\* requested timeout or 300, the conversation id of the original message or else
\* its timestamp, and the time of the completion.
C14_EntryContents ==
    FrameRequest =>
        /\ FrameRequestKey \in KeysOf(callbacks)
        /\ FrameRegistered.func = frame.result.func
        /\ FrameRegistered.timeout =
              (IF "timeout" \in frame.result.keys THEN frame.result.timeout ELSE 300)
        /\ FrameRegistered.id =
              (IF frame.task.conversation_id # NoConv
               THEN frame.task.conversation_id ELSE frame.task.timestamp)
        /\ FrameRegistered.time = now

\* the handler of a message that consumed a continuation returns, at a time that
\* is not the message's, a request that names no timeout
C14_Witness ==
    /\ FrameRequest
    /\ "timeout" \notin frame.result.keys
    /\ frame.task.conversation_id # NoConv
    /\ frame.task.conversation_id # frame.task.timestamp
    /\ now # frame.task.timestamp
    /\ FrameRegistered.timeout = 300

-----------------------------------------------------------------------------
(* C15 *)

\* the thread continuations that were stored for the thread of the frame's
\* message, under its sender or under "all"
FrameThreadEntries ==
    {e \in frame.before.threads :
        e.thread = frame.msg.thread /\ e.key \in {frame.msg.frm.id, "all"}}

\* the sender's own entry when there is one, else the "all" entry
FrameThreadChosen ==
    IF \E e \in FrameThreadEntries : e.key = frame.msg.frm.id
    THEN CHOOSE e \in FrameThreadEntries : e.key = frame.msg.frm.id
    ELSE CHOOSE e \in FrameThreadEntries : e.key = "all"

\* C15: a routed message of a thread that has a thread continuation for it is
\* handled by that continuation's callback alone, with no pattern searched; the
\* sender's own entry goes before the "all" entry, and only the chosen entry is
\* removed.
C15_AsStated ==
    (FrameRouted /\ frame.msg.thread # NoThread /\ FrameThreadEntries # {}) =>
        /\ Len(frame.handlers) = 1
        /\ frame.handlers[1].func = FrameThreadChosen.func
        /\ frame.searched = <<>>
        /\ threads = frame.before.threads \ {FrameThreadChosen}

-----------------------------------------------------------------------------
(* C16 *)

\* C16: no handler located through a descriptor that carries a channel scope is
\* scheduled for a message whose destination is outside the scope.
C16_AsStated ==
    FrameIncoming =>
        \A i \in 1..Len(frame.handlers) :
            (frame.handlers[i].arg.kind = "match"
             /\ "scope" \in DOMAIN frame.handlers[i].cmd)
                => frame.msg.to.id \in frame.handlers[i].cmd.scope

-----------------------------------------------------------------------------
(* C17 *)

\* the descriptors the provider supplied whose pattern compiles
Compilable ==
    {d \in {Flatten(plugins)[i] : i \in 1..Len(Flatten(plugins))} :
        ~(\E k \in 1..Len(d.match) : d.match[k] = "(")}

IsRegistered(d) ==
    \E i \in 1..Len(endpoints) :
        /\ endpoints[i].match = d.match
        /\ \E j \in 1..Len(endpoints[i].commands) : endpoints[i].commands[j] = d

\* C17: after the build every descriptor whose pattern compiles is registered,
\* whether it was listed before or after one whose pattern does not compile.
C17_AsStated == \A d \in Compilable : IsRegistered(d)

-----------------------------------------------------------------------------
(* C18 *)

\* the entry the request of the frame asks for, whole
FrameRequested ==
    [func |-> frame.result.func,
     time |-> now,
     timeout |-> IF "timeout" \in frame.result.keys THEN frame.result.timeout ELSE 300,
     id |-> IF frame.task.conversation_id # NoConv
            THEN frame.task.conversation_id ELSE frame.task.timestamp]

\* C18: a completion with a request leaves under its pair exactly the entry it
\* asked for, whatever entry the pair had, and touches no other pair; no other
\* callback writes an entry.  The entry of a pair is thus the one of the last
\* completion that asked for it.
C18_LastCompletionWins ==
    /\ FrameRequest =>
          /\ FrameRequestKey \in KeysOf(callbacks)
          /\ FrameRegistered = FrameRequested
          /\ OthersUnchanged(FrameRequestKey)
    /\ (frame # Idle /\ ~FrameRequest) =>
          Written(frame.before.callbacks, callbacks) = {}

\* the second of two handlers of one message completes and asks for another
\* callback and timeout than the first, whose entry is in the map
C18_Witness ==
    /\ FrameRequest
    /\ frame.task.conversation_id = NoConv
    /\ FrameRequestKey = <<frame.task.frm.id, frame.task.to.id>>
    /\ FrameRequestKey \in KeysOf(frame.before.callbacks)
    /\ frame.before.callbacks[FrameRequestKey[1]][FrameRequestKey[2]].id
          = frame.task.timestamp
    /\ frame.before.callbacks[FrameRequestKey[1]][FrameRequestKey[2]].func
          # frame.result.func
    /\ frame.before.callbacks[FrameRequestKey[1]][FrameRequestKey[2]].timeout
          # FrameRequested.timeout
    /\ nTasks = 2
    /\ tasks = EmptyBag

-----------------------------------------------------------------------------
(* C19 *)

\* C19: a message that consumes a continuation gets the id stored in it, and its
\* handler tasks carry that id; a message routed by the patterns gets none; an
\* entry registered for a message that carries an id stores that id, and one
\* registered for a message without id stores the message's timestamp.  Along a
\* chain that starts at a pattern-matched message M1 every entry and every
\* consuming message thus has the timestamp of M1.
C19_ConversationChain ==
    /\ (FrameRouted /\ FrameViaCallback) =>
          /\ frame.msg.conversation_id = FrameEntry.id
          /\ \E m \in BagToSet(tasks) :
                /\ m.timestamp = frame.msg.timestamp
                /\ m.conversation_id = FrameEntry.id
    /\ (FrameRouted /\ ~FrameViaCallback) =>
          /\ frame.msg.conversation_id = NoConv
          /\ \A m \in BagToSet(tasks) \ BagToSet(frame.before.tasks) :
                m.conversation_id = NoConv
    /\ (FrameRequest /\ frame.task.conversation_id # NoConv) =>
          FrameRegistered.id = frame.task.conversation_id
    /\ (FrameRequest /\ frame.task.conversation_id = NoConv) =>
          FrameRegistered.id = frame.task.timestamp

\* the handler of M2, which consumed the continuation that the handler of M1
\* registered, asks for a further one: the two tasks are all there ever were
C19_Witness ==
    /\ FrameRequest
    /\ nTasks = 2
    /\ frame.task.conversation_id # NoConv
    /\ frame.task.conversation_id # frame.task.timestamp
    /\ FrameRequestKey = <<frame.task.frm.id, frame.task.to.id>>
    /\ FrameRegistered.id = frame.task.conversation_id

-----------------------------------------------------------------------------
(* C20 *)

\* C20: a routed message whose pair has an entry registered at registeredAt with
\* a timeout ttl is given to the entry's callback whenever now <= registeredAt +
\* ttl, the instant now = registeredAt + ttl included.
C20_AsStated ==
    (FrameRouted /\ FrameHasEntry /\ now <= FrameEntry.time + FrameEntry.timeout) =>
        /\ FrameViaCallback
        /\ frame.handlers[1].func = FrameEntry.func

-----------------------------------------------------------------------------
(* C21 *)

FrameRebuild == frame.op = "register"

\* the descriptors the providers supplied at the last build
Listed == {Flatten(plugins)[i] : i \in 1..Len(Flatten(plugins))}

\* the descriptors the index holds
Indexed ==
    UNION {{endpoints[i].commands[j] : j \in 1..Len(endpoints[i].commands)} :
              i \in 1..Len(endpoints)}

\* C21: a routed message sees the whole index of the last build: every descriptor
\* of the providers' list whose pattern compiles and no descriptor outside that
\* list; no callback but a rebuild changes the index, and a rebuild leaves the
\* continuation store as it was.
C21_AsStated ==
    /\ FrameRouted =>
          /\ \A d \in Compilable : IsRegistered(d)
          /\ Indexed \subseteq Listed
    /\ (frame # Idle /\ ~FrameRebuild) => endpoints = frame.before.endpoints
    /\ FrameRebuild =>
          /\ callbacks = frame.before.callbacks
          /\ threads = frame.before.threads

-----------------------------------------------------------------------------
(* C22 *)

\* the message of the frame has no sender, or the bot is its sender
FrameFiltered ==
    \/ frame.msg.frm = NoFrm
    \/ frame.msg.frm.id \in {BotId, BotBotId, SlackbotId}

\* C22: a message without sender or sent by the bot is not stored, under any save
\* policy; a message of anybody else with a suppressed subtype, which the save
\* policy covers and whose timestamp is not stored yet, is stored by its delivery
\* and is not routed: no handler, no lookup, no continuation consumed.
C22_FilterBeforePersist ==
    /\ (FrameIncoming /\ FrameFiltered) => db = frame.before.db
    /\ (FrameIncoming /\ ~FrameFiltered /\ FrameSaveCovered
          /\ frame.msg.subtype \in SuppressedSubtypes
          /\ frame.msg.timestamp \notin frame.before.db)
         => /\ db = frame.before.db \cup {frame.msg.timestamp}
            /\ FrameNoOp

\* the first delivery of a user's edit, under a policy that lists edits, for a
\* pair that has a live continuation
C22_Witness ==
    /\ FrameIncoming
    /\ save.isList
    /\ frame.msg.subtype = "message_changed"
    /\ frame.msg.frm.id = "U1"
    /\ frame.msg.timestamp \notin frame.before.db
    /\ frame.msg.timestamp \in db
    /\ frame.log = <<"saving", "ignoring">>
    /\ FrameLive

-----------------------------------------------------------------------------
(* C23 *)

\* C23: when get(id, dm=True) returns, the user it returns has a dm id and the
\* row of the user holds that id; a get for an id that has no row queries Slack
\* and leaves a row for the id.
C23_AsStated ==
    /\ (got.called /\ got.dm) =>
          /\ got.user.dm_id # NoDm
          /\ got.id \in DOMAIN got.table
          /\ got.table[got.id].dm_id = got.user.dm_id
    /\ (got.called /\ got.id \notin DOMAIN got.before) =>
          /\ got.queried
          /\ got.id \in DOMAIN got.table

-----------------------------------------------------------------------------
(* C24 *)

\* C24: a reconnect that was begun ends, whether an attempt succeeds or connecting
\* keeps failing: after a bounded number of attempts the supervisor returns.
C24_AsStated == (rtm.pc # "idle") ~> (rtm.pc = "idle")

====
